---- MODULE Spec2Model ----
(***************************************************************************)
(* Model of loco-cli/src/generate.rs: the starter-template registry        *)
(* (collect_templates) and the substitution engine (Template::generate,    *)
(* Template::apply_rules, Template::should_run_file).                      *)
(*                                                                         *)
(* Text is a sequence of one-character strings.  A path is a sequence of   *)
(* components, each component a text.  A Regex is modelled for the literal *)
(* patterns the starters use: a literal text, optionally anchored at the   *)
(* end of the haystack ("\.rs$").                                          *)
(***************************************************************************)
EXTENDS Integers, Sequences, FiniteSets, TLC

\* Number of threads of the parallel walker (ignore picks the machine's).
NumWorkers == 2
\* Largest number of entries in the listing of the templates root.
MaxEntries == 3

----------------------------------------------------------------------------
(* Option<T> *)

OptNone == [some |-> FALSE, v |-> <<>>]
OptSome(x) == [some |-> TRUE, v |-> x]

----------------------------------------------------------------------------
(* regex::Regex on literal patterns *)

Lit(s) == [lit |-> s, anchorEnd |-> FALSE]
LitEnd(s) == [lit |-> s, anchorEnd |-> TRUE]

\* the literal of re occurs in text s starting at position i
MatchAt(re, s, i) ==
    /\ i >= 1
    /\ i + Len(re.lit) - 1 <= Len(s)
    /\ \A k \in 1..Len(re.lit) : s[i + k - 1] = re.lit[k]
    /\ re.anchorEnd => i + Len(re.lit) - 1 = Len(s)

\* Regex::is_match
is_match(re, s) == \E i \in 1..Len(s) : MatchAt(re, s, i)

\* characters that may form a capture-group name after "$" in a replacement
NameChars ==
    {"a","b","c","d","e","f","g","h","i","j","k","l","m","n","o","p","q","r",
     "s","t","u","v","w","x","y","z","A","B","C","D","E","F","G","H","I","J",
     "K","L","M","N","O","P","Q","R","S","T","U","V","W","X","Y","Z","0","1",
     "2","3","4","5","6","7","8","9","_"}

RECURSIVE NameRunEnd(_, _)
\* first position at or after i of rep that is not a name character
NameRunEnd(rep, i) ==
    IF i <= Len(rep) /\ rep[i] \in NameChars THEN NameRunEnd(rep, i + 1) ELSE i

RECURSIVE ExpandFrom(_, _, _)
\* The replacement rep, from position i, with its "$" references expanded for
\* a match m of a pattern without capture groups: "$$" is a literal "$",
\* "$0" is the match, any other "$name" is a group that does not exist and
\* expands to nothing, and a "$" that starts no reference stays.
ExpandFrom(rep, i, m) ==
    IF i > Len(rep) THEN <<>>
    ELSE IF rep[i] # "$" THEN <<rep[i]>> \o ExpandFrom(rep, i + 1, m)
    ELSE IF i < Len(rep) /\ rep[i + 1] = "$" THEN <<"$">> \o ExpandFrom(rep, i + 2, m)
    ELSE LET e == NameRunEnd(rep, i + 1) IN
         IF e = i + 1 THEN <<"$">> \o ExpandFrom(rep, i + 1, m)
         ELSE (IF \A k \in (i + 1)..(e - 1) : rep[k] = "0" THEN m ELSE <<>>)
              \o ExpandFrom(rep, e, m)

RECURSIVE ReplaceFrom(_, _, _, _)
\* leftmost, non-overlapping matches of re in s from position i replaced
ReplaceFrom(re, s, rep, i) ==
    IF i > Len(s) THEN <<>>
    ELSE IF MatchAt(re, s, i)
         THEN ExpandFrom(rep, 1, re.lit) \o ReplaceFrom(re, s, rep, i + Len(re.lit))
         ELSE <<s[i]>> \o ReplaceFrom(re, s, rep, i + 1)

\* Regex::replace_all with a String replacement
replace_all(re, s, rep) == ReplaceFrom(re, s, rep, 1)

----------------------------------------------------------------------------
(* Data model: Template, TemplateRule, TemplateRuleKind, ArgsPlaceholder *)

GENERATOR_FILE_NAME == <<"g","e","n","e","r","a","t","o","r",".","y","a","m","l">>

KindLibName == [tag |-> "LibName", s |-> <<>>]
KindSecret == [tag |-> "Secret", s |-> <<>>]
KindAny(s) == [tag |-> "Any", s |-> s]

\* TemplateRuleKind::get_val
get_val(kind, args) ==
    CASE kind.tag = "LibName" -> args.lib_name
      [] kind.tag = "Secret" -> args.secret
      [] OTHER -> kind.s

TemplateRule(pattern, kind, file_patterns) ==
    [pattern |-> pattern, kind |-> kind, file_patterns |-> file_patterns]

MkTemplate(description, file_patterns, rules) ==
    [description |-> description, file_patterns |-> file_patterns, rules |-> rules]

\* Option::unwrap_or_default on the rule list
unwrap_or_default(opt) == IF opt.some THEN opt.v ELSE <<>>

----------------------------------------------------------------------------
(* The texts of the scenarios *)

AppNameToken == <<"_","_","A","P","P","_","N","A","M","E","_","_">>
AppNameLine == <<"n","a","m","e"," ","="," ","\"","_","_","A","P","P","_","N","A","M","E","_","_","\"">>
BlogLine == <<"n","a","m","e"," ","="," ","\"","b","l","o","g","\"">>
TextAB == <<"a","b">>

RsPattern == LitEnd(<<".","r","s">>)
TxtPattern == LitEnd(<<".","t","x","t">>)

ArgsBlog == [lib_name |-> <<"b","l","o","g">>, secret |-> <<"$","1","x">>]
ArgsOther == [lib_name |-> <<"x","$","$">>, secret |-> <<"s","3">>]
ArgsSet == {ArgsBlog, ArgsOther}

RuleAppName == TemplateRule(Lit(AppNameToken), KindLibName, OptNone)
RuleAbToBb == TemplateRule(Lit(<<"a","b">>), KindAny(<<"b","b">>), OptNone)
RuleBbToA == TemplateRule(Lit(<<"b","b">>), KindAny(<<"a">>), OptNone)
RuleSecretTxt == TemplateRule(Lit(AppNameToken), KindSecret, OptSome(<<TxtPattern>>))
RuleNever == TemplateRule(Lit(<<"q","q">>), KindAny(<<"n">>), OptNone)

\* no file_patterns: every entry is eligible
TplNoPatterns == MkTemplate("nopat", OptNone, OptSome(<<RuleAppName>>))
\* only .rs files are eligible
TplRs == MkTemplate("rs", OptSome(<<RsPattern>>), OptSome(<<RuleAppName>>))
\* two rules whose patterns overlap: the second matches what the first writes
TplOrder == MkTemplate("order", OptSome(<<RsPattern>>), OptSome(<<RuleAbToBb, RuleBbToA>>))
\* a rule restricted to .txt files and a rule that matches nothing
TplPerRule ==
    MkTemplate("perrule", OptSome(<<RsPattern, TxtPattern>>), OptSome(<<RuleSecretTxt, RuleNever>>))
\* no rules at all
TplNoRules == MkTemplate("norules", OptSome(<<RsPattern>>), OptNone)

Templates == {TplNoPatterns, TplRs, TplOrder, TplPerRule, TplNoRules}
\* what every file under `from` holds at the start of a run
Bodies == {AppNameLine, TextAB}

----------------------------------------------------------------------------
(* The directory tree handed to generate:                                  *)
(*   p/  generator.yaml  a.rs  b.txt  .h.rs  target/c.rs  src/d.rs          *)

Nodes == 1..9
Root == 1
Descriptor == 2
NodeName ==
    << <<"p">>, GENERATOR_FILE_NAME, <<"a",".","r","s">>, <<"b",".","t","x","t">>, <<"t","a","r","g","e","t">>, <<"c",".","r","s">>,
       <<"s","r","c">>, <<"d",".","r","s">>, <<".","h",".","r","s">> >>
NodeParent == <<0, 1, 1, 1, 1, 5, 1, 7, 1>>
NodeKind == <<"dir", "file", "file", "file", "dir", "file", "dir", "file", "file">>
Files == {n \in Nodes : NodeKind[n] = "file"}

\* the `from` argument of generate
from == << NodeName[Root] >>

RECURSIVE Path(_)
\* DirEntry::path
Path(n) == IF n = Root THEN from ELSE Path(NodeParent[n]) \o <<NodeName[n]>>

RECURSIVE Join(_)
Join(path) ==
    IF Len(path) = 1 THEN path[1] ELSE path[1] \o <<"/">> \o Join(Tail(path))
\* Path::display().to_string()
Display(path) == Join(path)

\* Path::starts_with: whole components
starts_with(path, base) ==
    Len(base) <= Len(path) /\ \A k \in 1..Len(base) : path[k] = base[k]

\* m is n or below n
RECURSIVE InSubtree(_, _)
InSubtree(m, n) == m = n \/ (m # Root /\ InSubtree(NodeParent[m], n))

\* the walker's default filter: entries whose name starts with "." are
\* skipped.  The tree holds no ignore files and no links.
is_hidden(n) == NodeName[n][1] = "."

\* at most one faulty file per run: <<unreadable files, read-only files>>
FaultCases == { <<{}, {}>>, <<{3}, {}>>, <<{8}, {}>>, <<{}, {3}>> }

----------------------------------------------------------------------------
(* State *)

VARIABLES
    \* generate: the inputs of the run
    template, args, body, unreadable, readonly,
    \* generate: the file system under `from`
    content, present,
    \* generate: the parallel walker
    stack, wk, wpc, wbuf, quit_now, pc,
    \* generate: what has happened so far
    visited, applied, failed, created, log,
    \* collect_templates
    listable, entries, idx, templates, result, cpc

gvars == <<template, args, body, unreadable, readonly, content, present,
           stack, wk, wpc, wbuf, quit_now, pc, visited, applied, failed, created, log>>
cvars == <<listable, entries, idx, templates, result, cpc>>
vars == <<gvars, cvars>>

Workers == 1..NumWorkers

----------------------------------------------------------------------------
(* Template::should_run_file and Template::apply_rules *)

\* Path::is_file
is_file(path) == \E n \in present : Path(n) = path /\ NodeKind[n] = "file"

\* the test without the match of the path against the patterns
should_run_file_any_file(path, patterns) ==
    IF ~patterns.some THEN TRUE ELSE is_file(path)

should_run_file(path, patterns) ==
    IF ~patterns.some THEN TRUE
    ELSE is_file(path) /\ \E i \in 1..Len(patterns.v) : is_match(patterns.v[i], Display(path))

\* one turn of the loop over the rules
rule_step(path, acc, rule, a) ==
    IF should_run_file(path, rule.file_patterns) /\ is_match(rule.pattern, acc.content)
    THEN [content |-> replace_all(rule.pattern, acc.content, get_val(rule.kind, a)),
          is_changed |-> TRUE]
    ELSE acc

RECURSIVE fold_rules(_, _, _, _)
fold_rules(path, acc, rules, a) ==
    IF rules = <<>> THEN acc
    ELSE fold_rules(path, rule_step(path, acc, Head(rules), a), Tail(rules), a)

Reverse(s) == [i \in 1..Len(s) |-> s[Len(s) + 1 - i]]

\* the loop run over the rules last to first
apply_rules_loop_reversed(path, text, rules, a) ==
    fold_rules(path, [content |-> text, is_changed |-> FALSE], Reverse(rules), a)

\* the loop of apply_rules over the rules of the template, on the text read
apply_rules_loop(path, text, rules, a) ==
    fold_rules(path, [content |-> text, is_changed |-> FALSE], rules, a)

\* the file written whether or not a rule changed the text
needs_write_always(res) == TRUE

\* apply_rules creates and writes the file only when a rule changed the text
needs_write(res) == res.is_changed

\* File::open(file)?.read_to_string(..) succeeds: a directory cannot be read
can_read(n) == NodeKind[n] = "file" /\ n \notin unreadable

\* File::create(file) succeeds (and write_all after it: a write that fails
\* half way is not among the faults of FaultCases)
can_create(n) == NodeKind[n] = "file" /\ n \notin readonly

\* the condition without the test for the target directory
runs_rules_no_target_test(n) == should_run_file(Path(n), template.file_patterns)

\* the condition under which the closure of generate calls apply_rules
runs_rules(n) ==
    /\ ~starts_with(Path(n), from \o << <<"t","a","r","g","e","t">> >>)
    /\ should_run_file(Path(n), template.file_patterns)

\* the entries of directory n the walker hands on
Children(n) == {c \in present : c # Root /\ NodeParent[c] = n /\ ~is_hidden(c)}

\* some worker thread has returned
walk_finished_first_thread == \E w \in Workers : wpc[w] = "stopped"

\* every worker thread has returned
walk_finished == \A w \in Workers : wpc[w] = "stopped"

----------------------------------------------------------------------------
(* Template::generate *)

NoCollect ==
    /\ listable = FALSE /\ entries = <<>> /\ idx = 0
    /\ templates = {} /\ result = "none" /\ cpc = "off"

Init ==
    /\ template \in Templates
    /\ args \in ArgsSet
    /\ body \in Bodies
    /\ \E f \in FaultCases : unreadable = f[1] /\ readonly = f[2]
    /\ content = [n \in Files |-> body]
    /\ present = Nodes
    /\ stack = {Root}
    /\ wk = [w \in Workers |-> 0]
    /\ wpc = [w \in Workers |-> "idle"]
    /\ wbuf = [w \in Workers |-> <<>>]
    /\ quit_now = FALSE
    /\ pc = "walk"
    /\ visited = {} /\ applied = {} /\ failed = {} /\ created = {} /\ log = {}
    /\ NoCollect

\* a worker takes an entry off the work stacks.  The walker gives no order
\* between its threads (each pops its own stack and steals from the others),
\* so any queued entry may be the next one taken.
Take(w) ==
    /\ pc = "walk" /\ wpc[w] = "idle" /\ ~quit_now
    /\ \E n \in stack :
         /\ stack' = stack \ {n}
         /\ wk' = [wk EXCEPT ![w] = n]
    /\ wpc' = [wpc EXCEPT ![w] = "work"]
    /\ UNCHANGED <<template, args, body, unreadable, readonly, content,
                   present, wbuf, quit_now, pc, visited, applied, failed, created, log>>
    /\ UNCHANGED cvars

\* the closure on an entry it does not run the rules on: WalkState::Continue,
\* and the walker queues the entries of a directory
VisitSkip(w) ==
    /\ wpc[w] = "work" /\ ~runs_rules(wk[w])
    /\ visited' = visited \cup {wk[w]}
    /\ stack' = stack \cup (IF NodeKind[wk[w]] = "dir" THEN Children(wk[w]) ELSE {})
    /\ wpc' = [wpc EXCEPT ![w] = "idle"]
    /\ wk' = [wk EXCEPT ![w] = 0]
    /\ UNCHANGED <<template, args, body, unreadable, readonly, content,
                   present, wbuf, quit_now, pc, applied, failed, created, log>>
    /\ UNCHANGED cvars

\* apply_rules cannot read the entry: the closure logs and returns WalkState::Quit
VisitReadFail(w) ==
    /\ wpc[w] = "work" /\ runs_rules(wk[w]) /\ ~can_read(wk[w])
    /\ visited' = visited \cup {wk[w]}
    /\ failed' = failed \cup {wk[w]}
    /\ log' = log \cup {"could not run rules placeholder replacement on the file"}
    /\ quit_now' = TRUE
    /\ wpc' = [wpc EXCEPT ![w] = "idle"]
    /\ wk' = [wk EXCEPT ![w] = 0]
    /\ UNCHANGED <<template, args, body, unreadable, readonly, content,
                   present, stack, wbuf, pc, applied, created>>
    /\ UNCHANGED cvars

\* apply_rules reads the file and no rule changes it: Ok, WalkState::Continue
VisitUnchanged(w) ==
    /\ wpc[w] = "work" /\ runs_rules(wk[w]) /\ can_read(wk[w])
    /\ LET res == apply_rules_loop(Path(wk[w]), content[wk[w]],
                                   unwrap_or_default(template.rules), args)
       IN  ~needs_write(res)
    /\ visited' = visited \cup {wk[w]}
    /\ applied' = applied \cup {wk[w]}
    /\ wpc' = [wpc EXCEPT ![w] = "idle"]
    /\ wk' = [wk EXCEPT ![w] = 0]
    /\ UNCHANGED <<template, args, body, unreadable, readonly, content,
                   present, stack, wbuf, quit_now, pc, failed, created, log>>
    /\ UNCHANGED cvars

\* apply_rules reads the file and a rule changes the text: the worker holds the new text
VisitChanged(w) ==
    /\ wpc[w] = "work" /\ runs_rules(wk[w]) /\ can_read(wk[w])
    /\ LET res == apply_rules_loop(Path(wk[w]), content[wk[w]],
                                   unwrap_or_default(template.rules), args)
       IN  /\ needs_write(res)
           /\ wbuf' = [wbuf EXCEPT ![w] = res.content]
    /\ visited' = visited \cup {wk[w]}
    /\ wpc' = [wpc EXCEPT ![w] = "write"]
    /\ UNCHANGED <<template, args, body, unreadable, readonly, content,
                   present, stack, wk, quit_now, pc, applied, failed, created, log>>
    /\ UNCHANGED cvars

\* File::create and write_all succeed: Ok, WalkState::Continue
WriteOk(w) ==
    /\ wpc[w] = "write" /\ can_create(wk[w])
    /\ content' = [content EXCEPT ![wk[w]] = wbuf[w]]
    /\ created' = created \cup {wk[w]}
    /\ applied' = applied \cup {wk[w]}
    /\ wpc' = [wpc EXCEPT ![w] = "idle"]
    /\ wk' = [wk EXCEPT ![w] = 0]
    /\ wbuf' = [wbuf EXCEPT ![w] = <<>>]
    /\ UNCHANGED <<template, args, body, unreadable, readonly, present,
                   stack, quit_now, pc, visited, failed, log>>
    /\ UNCHANGED cvars

\* File::create fails: the closure logs and returns WalkState::Quit
WriteFail(w) ==
    /\ wpc[w] = "write" /\ ~can_create(wk[w])
    /\ created' = created \cup {wk[w]}
    /\ failed' = failed \cup {wk[w]}
    /\ log' = log \cup {"could not run rules placeholder replacement on the file"}
    /\ quit_now' = TRUE
    /\ wpc' = [wpc EXCEPT ![w] = "idle"]
    /\ wk' = [wk EXCEPT ![w] = 0]
    /\ wbuf' = [wbuf EXCEPT ![w] = <<>>]
    /\ UNCHANGED <<template, args, body, unreadable, readonly, content,
                   present, stack, pc, visited, applied>>
    /\ UNCHANGED cvars

\* a worker with nothing to take returns: the walk was told to quit, or the
\* stack is empty and no worker is at work
Stop(w) ==
    /\ pc = "walk" /\ wpc[w] = "idle"
    /\ \/ quit_now
       \/ stack = {} /\ \A v \in Workers : wpc[v] \in {"idle", "stopped"}
    /\ wpc' = [wpc EXCEPT ![w] = "stopped"]
    /\ UNCHANGED <<template, args, body, unreadable, readonly, content,
                   present, stack, wk, wbuf, quit_now, pc, visited, applied, failed,
                   created, log>>
    /\ UNCHANGED cvars

\* walker.run returns once every worker thread is joined
Join_workers ==
    /\ pc = "walk" /\ walk_finished
    /\ pc' = "remove"
    /\ UNCHANGED <<template, args, body, unreadable, readonly, content,
                   present, stack, wk, wpc, wbuf, quit_now, visited, applied, failed,
                   created, log>>
    /\ UNCHANGED cvars

\* fs::remove_file(from.join(GENERATOR_FILE_NAME)) succeeds
RemoveOk ==
    /\ pc = "remove" /\ Descriptor \in present
    /\ present' = present \ {Descriptor}
    /\ pc' = "done"
    /\ UNCHANGED <<template, args, body, unreadable, readonly, content,
                   stack, wk, wpc, wbuf, quit_now, visited, applied, failed, created, log>>
    /\ UNCHANGED cvars

\* fs::remove_file fails (the directory does not allow it): logged, and
\* generate returns all the same
RemoveFail ==
    /\ pc = "remove"
    /\ log' = log \cup {"could not delete generator file"}
    /\ pc' = "done"
    /\ UNCHANGED <<template, args, body, unreadable, readonly, content,
                   present, stack, wk, wpc, wbuf, quit_now, visited, applied, failed,
                   created>>
    /\ UNCHANGED cvars

Next ==
    \/ \E w \in Workers : Take(w)
    \/ \E w \in Workers : VisitSkip(w)
    \/ \E w \in Workers : VisitReadFail(w)
    \/ \E w \in Workers : VisitUnchanged(w)
    \/ \E w \in Workers : VisitChanged(w)
    \/ \E w \in Workers : WriteOk(w)
    \/ \E w \in Workers : WriteFail(w)
    \/ \E w \in Workers : Stop(w)
    \/ Join_workers
    \/ RemoveOk
    \/ RemoveFail

Spec == Init /\ [][Next]_vars

\* the operating system schedules every thread that can run
FairSpec == Init /\ [][Next]_vars /\ WF_vars(Next)

----------------------------------------------------------------------------
(* collect_templates *)

\* what the listing of the root can hold.  err: the iterator yields an error
\* for the entry; typeErr: entry.file_type() fails; utf8: file_name().to_str()
\* is Some; desc: the state of <entry>/generator.yaml
Shape(err, typeErr, kind, utf8, desc) ==
    [err |-> err, typeErr |-> typeErr, kind |-> kind, utf8 |-> utf8, desc |-> desc]

EntryShapes ==
    { Shape(TRUE, FALSE, "dir", TRUE, "valid"),
      Shape(FALSE, TRUE, "dir", TRUE, "valid"),
      Shape(FALSE, FALSE, "file", TRUE, "missing"),
      Shape(FALSE, FALSE, "symlink", TRUE, "valid"),
      Shape(FALSE, FALSE, "dir", FALSE, "valid"),
      Shape(FALSE, FALSE, "dir", TRUE, "missing"),
      Shape(FALSE, FALSE, "dir", TRUE, "unopenable"),
      Shape(FALSE, FALSE, "dir", TRUE, "malformed"),
      Shape(FALSE, FALSE, "dir", TRUE, "valid") }

\* the name of the i-th entry of the listing
EntryNames == <<"saas", "rest", "lightweight", "stateless", "minimal">>

Listings == UNION { [1..n -> EntryShapes] : n \in 0..MaxEntries }

\* entry.file_type()?.is_dir(): the type of the entry itself, links not followed
is_dir(e) == e.kind = "dir"

\* generator_file_path.exists()
exists(e) == e.desc # "missing"

\* std::fs::File::open(&generator_file_path) is Ok
open_ok(e) == e.desc \in {"malformed", "valid"}

\* a descriptor that does not parse taken for one that does
parse_ok_malformed_too(e) == e.desc \in {"malformed", "valid"}

\* serde_yaml::from_reader(&rdr) is Ok
parse_ok(e) == e.desc = "valid"

\* the Template the descriptor of the i-th entry parses into
parsed(i) == MkTemplate(EntryNames[i], OptSome(<<RsPattern>>), OptSome(<<RuleAppName>>))

\* BTreeMap::insert: a later value replaces an earlier one under the same key
insert(map, k, t) == {kv \in map : kv.name # k} \cup {[name |-> k, t |-> t]}

NoGenerate ==
    /\ template = TplNoRules /\ args = ArgsBlog /\ body = <<>>
    /\ unreadable = {} /\ readonly = {}
    /\ content = [n \in Files |-> <<>>] /\ present = {}
    /\ stack = {} /\ wk = [w \in Workers |-> 0]
    /\ wpc = [w \in Workers |-> "stopped"] /\ wbuf = [w \in Workers |-> <<>>]
    /\ quit_now = FALSE /\ pc = "off"
    /\ visited = {} /\ applied = {} /\ failed = {} /\ created = {} /\ log = {}

InitCollect ==
    /\ \/ listable = FALSE /\ entries = <<>>
       \/ listable = TRUE /\ entries \in Listings
    /\ idx = 0
    /\ templates = {}
    /\ result = "none"
    /\ cpc = "start"
    /\ NoGenerate

\* fs::read_dir(path)? fails: the error is returned
ReadDirErr ==
    /\ cpc = "start" /\ ~listable
    /\ result' = "Err" /\ cpc' = "done"
    /\ UNCHANGED <<listable, entries, idx, templates>>
    /\ UNCHANGED gvars

ReadDirOk ==
    /\ cpc = "start" /\ listable
    /\ idx' = 1 /\ cpc' = "loop"
    /\ UNCHANGED <<listable, entries, templates, result>>
    /\ UNCHANGED gvars

AtEntry == cpc = "loop" /\ idx \in 1..Len(entries)

\* the entry is dropped and the loop goes on to the next one
NextEntry ==
    /\ idx' = idx + 1
    /\ UNCHANGED <<listable, entries, templates, result, cpc>>
    /\ UNCHANGED gvars

\* the function returns the error
ReturnErr ==
    /\ result' = "Err" /\ cpc' = "done"
    /\ UNCHANGED <<listable, entries, idx, templates>>
    /\ UNCHANGED gvars

\* let entry = entry?;
EntryErr == AtEntry /\ entries[idx].err /\ ReturnErr

\* entry.file_type()?
FileTypeErr == AtEntry /\ ~entries[idx].err /\ entries[idx].typeErr /\ ReturnErr

EntryRead == AtEntry /\ ~entries[idx].err /\ ~entries[idx].typeErr

NotDir == EntryRead /\ ~is_dir(entries[idx]) /\ NextEntry

NameNotUtf8 == EntryRead /\ is_dir(entries[idx]) /\ ~entries[idx].utf8 /\ NextEntry

Starter == EntryRead /\ is_dir(entries[idx]) /\ entries[idx].utf8

NoGenerator == Starter /\ ~exists(entries[idx]) /\ NextEntry

OpenFail == Starter /\ exists(entries[idx]) /\ ~open_ok(entries[idx]) /\ NextEntry

ParseFail ==
    /\ Starter /\ exists(entries[idx]) /\ open_ok(entries[idx])
    /\ ~parse_ok(entries[idx])
    /\ NextEntry

InsertTemplate ==
    /\ Starter /\ exists(entries[idx]) /\ open_ok(entries[idx])
    /\ parse_ok(entries[idx])
    /\ templates' = insert(templates, EntryNames[idx], parsed(idx))
    /\ idx' = idx + 1
    /\ UNCHANGED <<listable, entries, result, cpc>>
    /\ UNCHANGED gvars

\* Ok(templates)
ReturnOk ==
    /\ cpc = "loop" /\ idx > Len(entries)
    /\ result' = "Ok" /\ cpc' = "done"
    /\ UNCHANGED <<listable, entries, idx, templates>>
    /\ UNCHANGED gvars

NextCollect ==
    \/ ReadDirErr
    \/ ReadDirOk
    \/ EntryErr
    \/ FileTypeErr
    \/ NotDir
    \/ NameNotUtf8
    \/ NoGenerator
    \/ OpenFail
    \/ ParseFail
    \/ InsertTemplate
    \/ ReturnOk

SpecCollect == InitCollect /\ [][NextCollect]_vars

----------------------------------------------------------------------------
(* Properties of collect_templates *)

\* C1: collect_templates returns an error only when the root directory
\* itself cannot be listed; a problem with one entry of the listing is
\* swallowed and the call still returns Ok.
C1_ErrorOnlyWhenRootUnlistable ==
    cpc = "done" => (result = "Err" <=> ~listable)

\* the entries that are immediate subdirectories with a descriptor that
\* exists, opens and parses
ValidStarters ==
    { i \in 1..Len(entries) :
        /\ entries[i].kind = "dir" /\ entries[i].utf8
        /\ entries[i].desc = "valid" }

----------------------------------------------------------------------------
(* Properties of generate *)

\* the walker hands entry n to the closure when nothing stops the walk
Reached(n) == \A d \in Nodes : (InSubtree(n, d) /\ d # Root) => ~is_hidden(d)

TargetFiles ==
    { f \in Files : \E d \in Nodes :
        /\ d # Root /\ NodeParent[d] = Root
        /\ NodeName[d] = <<"t","a","r","g","e","t">>
        /\ InSubtree(f, d) }

\* C3: with no file_patterns every regular file under source_dir outside
\* target is eligible and rewritten: a file holding name = "__APP_NAME__"
\* holds name = "blog" after generate with lib_name = "blog"; the
\* directories the walk visits do not prevent this.
C3_NoPatternsRewritesFiles ==
    ( /\ pc = "done"
      /\ ~template.file_patterns.some
      /\ template.rules = OptSome(<<RuleAppName>>)
      /\ body = AppNameLine /\ args = ArgsBlog
      /\ unreadable = {} /\ readonly = {} )
    => \A f \in Files \ (TargetFiles \cup {Descriptor}) :
          Reached(f) => content[f] = BlogLine

\* C4: a failure of apply_rules on one file stops only the branch of that
\* file: every eligible file outside the subtree of the failed file has the
\* rules applied to it in the same run.
C4_FailureStopsOnlyItsBranch ==
    pc = "done" =>
        \A g \in failed : \A f \in Files \ {Descriptor} :
            (Reached(f) /\ runs_rules(f) /\ ~InSubtree(f, g)) => f \in applied

MatchesTemplatePatterns(f) ==
    \E i \in 1..Len(template.file_patterns.v) :
        is_match(template.file_patterns.v[i], Display(Path(f)))

\* C5: with file_patterns present, a file whose full path matches none of
\* them keeps its content through the whole run (the descriptor excepted).
C5_UnmatchedFilesUnchanged ==
    template.file_patterns.some =>
        \A f \in Files \ {Descriptor} :
            ~MatchesTemplatePatterns(f) => (content[f] = body /\ f \notin created)

C5_Witness ==
    /\ pc = "done" /\ template = TplRs /\ body = AppNameLine
    /\ 4 \in visited /\ content[4] = AppNameLine
    /\ 3 \in created /\ content[3] # AppNameLine

\* C6: in every state of a run no file under source_dir/target has been
\* written, whatever the file_patterns and rules.
C6_TargetNeverWritten ==
    \A f \in TargetFiles :
        content[f] = body /\ f \notin created /\ f \notin applied /\ f \notin failed

C6_Witness ==
    /\ pc = "done" /\ template = TplRs /\ body = AppNameLine
    /\ 6 \in TargetFiles /\ 6 \in visited /\ content[6] = AppNameLine
    /\ MatchesTemplatePatterns(6)
    /\ 3 \in created /\ content[3] # AppNameLine

\* once the deletion is due, no step reads or writes a file of the walk
NoWalkStepAfterRemoval ==
    pc \in {"remove", "done"} =>
        (content' = content /\ created' = created /\ visited' = visited)

\* C7: every run comes to attempt the deletion of the descriptor, cut short
\* or not; the attempt comes only after every worker of the walk has
\* stopped, and nothing is read or written by the walk after it; a deletion
\* that succeeds leaves no descriptor, one that fails is logged and generate
\* returns all the same.
C7_DescriptorDeletedAfterWalk ==
    /\ [](pc \in {"remove", "done"} =>
            \A w \in Workers : wpc[w] = "stopped" /\ wk[w] = 0)
    /\ [][NoWalkStepAfterRemoval]_vars
    /\ [](Descriptor \notin present => pc = "done")
    /\ [](pc = "done" =>
            (Descriptor \notin present \/ "could not delete generator file" \in log))
    /\ <>(pc = "done")

C7_Witness ==
    /\ pc = "done" /\ Descriptor \notin present
    /\ failed # {} /\ stack # {}

\* one rule applied to a text
ApplyOne(f, rule, text) ==
    IF should_run_file(Path(f), rule.file_patterns) /\ is_match(rule.pattern, text)
    THEN replace_all(rule.pattern, text, get_val(rule.kind, args))
    ELSE text

DeclaredOrder(f) ==
    LET rs == unwrap_or_default(template.rules) IN
    IF Len(rs) = 0 THEN body
    ELSE IF Len(rs) = 1 THEN ApplyOne(f, rs[1], body)
    ELSE ApplyOne(f, rs[2], ApplyOne(f, rs[1], body))

ReverseOrder(f) ==
    LET rs == unwrap_or_default(template.rules) IN
    IF Len(rs) = 0 THEN body
    ELSE IF Len(rs) = 1 THEN ApplyOne(f, rs[1], body)
    ELSE ApplyOne(f, rs[1], ApplyOne(f, rs[2], body))

\* C8: the rules are applied in declaration order, each to the text the
\* earlier ones produced: the content of a file the rules were applied to is
\* rule 1 replaced in the original, then rule 2 replaced in that result.
C8_RulesInDeclarationOrder ==
    \A f \in applied \cap present : content[f] = DeclaredOrder(f)

C8_Witness ==
    /\ pc = "done" /\ template = TplOrder /\ body = TextAB
    /\ 3 \in applied /\ content[3] = <<"a">>
    /\ ReverseOrder(3) = <<"b","b">>

\* a rule passes its own file_patterns test and matches the text the
\* earlier rules left
SomeRuleFired(f) ==
    LET rs == unwrap_or_default(template.rules) IN
    \E i \in 1..Len(rs) :
        /\ should_run_file(Path(f), rs[i].file_patterns)
        /\ is_match(rs[i].pattern,
                    apply_rules_loop(Path(f), body, SubSeq(rs, 1, i - 1), args).content)

\* C9: apply_rules opens a file for writing exactly when a rule passed its
\* own file_patterns test and matched the current text; otherwise the file
\* is not opened for writing and keeps its content.
C9_WrittenIffRuleFired ==
    /\ \A f \in applied \cap present : (f \in created <=> SomeRuleFired(f))
    /\ \A f \in created \cap present : SomeRuleFired(f)
    /\ \A f \in Files : f \notin created => content[f] = body

C9_Witness ==
    /\ pc = "done" /\ template = TplPerRule /\ body = AppNameLine
    /\ 4 \in created /\ content[4] # body
    /\ 3 \in applied /\ 3 \notin created /\ content[3] = body

\* the content of file f after the walk that visits a failing entry last
CompleteOutcome(f) ==
    IF runs_rules(Root) THEN body
    ELSE IF Reached(f) /\ runs_rules(f) /\ can_read(f) /\ can_create(f)
         THEN apply_rules_loop(Path(f), body, unwrap_or_default(template.rules), args).content
         ELSE body

\* C10: the outcome of generate does not depend on the order in which the
\* workers visit the entries: every interleaving ends in the same content
\* of every file.
C10_OutcomeIndependentOfOrder ==
    pc = "done" => \A f \in Files \ {Descriptor} : content[f] = CompleteOutcome(f)

\* the walk that visits the failing file last ends in CompleteOutcome
C10_CompleteOutcomeReached ==
    /\ pc = "done" /\ failed # {} /\ ~runs_rules(Root)
    /\ \A f \in Files \ {Descriptor} : content[f] = CompleteOutcome(f)
    /\ \E f \in Files : content[f] # body

====
